---- MODULE Spec2Model ----
(***************************************************************************)
(* Model of dma-node's Node<N, W> (src/src/lib.rs): a buffer of N slots of *)
(* MaybeUninit<W> together with the length `len` of its valid prefix.      *)
(*                                                                         *)
(* A slot is either Uninit (never written since new()) or holds a value of *)
(* W.  usize arithmetic is done modulo 2^UsizeBits.  Where an addition or  *)
(* subtraction overflows, the build decides: with overflow checks (debug)  *)
(* the operation panics, without them (release) it wraps; both outcomes    *)
(* are in the model.                                                       *)
(***************************************************************************)
EXTENDS Integers, Sequences, FiniteSets, TLC

VARIABLES
    len,       \* Node::len
    buf,       \* Node::buf: slot index -> a value of W, or Uninit
    view,      \* the &mut borrow of the storage that is outstanding, if any
    op,        \* the operation that ran last
    ret,       \* what it returned
    fresh,     \* only write_slice has been called since new()
    accepted,  \* the sum of the counts write_slice returned while fresh
    alive,     \* the node has not been dropped
    dtors,     \* the destructor calls made so far, in order
    caller,    \* the buffer of resources the caller owns, if any
    dma        \* the external transfer into the storage, if any

\* What no method of a live node changes.
aux == <<alive, dtors, caller, dma>>

vars == <<len, buf, view, op, ret, fresh, accepted, aux>>

(* ------------------------------ bounds --------------------------------- *)

\* N::USIZE, the capacity of the node (the type parameter N).
Capacity == 3

\* Values of W are 0..MaxVal; W::default() is 0.
MaxVal == 1

\* Width of usize in bits.
UsizeBits == 3

\* Longest &str given to write_str, in chars.
MaxStrChars == 2

\* Where the node's storage lies in memory; the node is never moved.
StorageAddr == 4

(* ------------------------------ helpers -------------------------------- *)

UsizeMod == 2 ^ UsizeBits

Usize == 0 .. (UsizeMod - 1)

Vals == 0 .. MaxVal

Uninit == -1

Default == 0

Slots == 0 .. (Capacity - 1)

Min(a, b) == IF a < b THEN a ELSE b

\* Slices &[W] handed to write_slice: as long as the node at most, which is
\* longer than the free space of any node that is not empty.
MaxBufLen == Capacity

Bufs == UNION { [1 .. n -> Vals] : n \in 0 .. MaxBufLen }

\* Those of at most n elements.
BufsUpTo(n) == UNION { [1 .. m -> Vals] : m \in 0 .. n }

\* Return values.
Unit == [tag |-> "unit"]

RetUsize(n) == [tag |-> "usize", val |-> n]

RetSlice(n) == [tag |-> "slice", len |-> n]

RetBool(b) == [tag |-> "bool", val |-> b]

Ok == [tag |-> "Ok"]

Err == [tag |-> "Err"]

Panic == [tag |-> "panic"]

\* No mutable slice of the storage is borrowed.
NoView == [from |-> "none", len |-> 0]

(* ------------------------------ queries -------------------------------- *)

max_len == Capacity

\* self.max_len() - self.len(): panics on underflow with overflow checks,
\* wraps without them.
FreeOverflows(l) == l > max_len

free(l) == (max_len - l + UsizeMod) % UsizeMod

IsEmpty(l) == l = 0

is_empty == IsEmpty(len)

\* Mutant: the slice spans the whole storage.
DerefLenWholeStorage(l) == Capacity

\* Deref::deref: the slice of the first self.len slots.
DerefLen(l) == l

\* The read view of a node of length l and storage st.  (A slice longer than
\* the storage would read past it; only the storage is modelled.)
Deref(l, st) == [i \in 1 .. Min(DerefLen(l), Capacity) |-> st[i - 1]]

deref == Deref(len, buf)

\* The node is there to be called: it has not been dropped, and f, the
\* closure given to write_with, is not running (while it runs it holds the
\* only borrow of the node).
Idle == alive /\ view.from # "write_with"

\* A call ends: the node is left with r.len and r.buf, the caller with r.ret.
Apply(r, name) ==
    /\ len' = r.len
    /\ buf' = r.buf
    /\ ret' = r.ret
    /\ op' = name

\* No transfer: the external writer has no address, base is the storage
\* as write() left it, hit the slots it has stored to and last the value it
\* stored last in each.
DmaIdle ==
    [phase |-> "idle", addr |-> 0, base |-> [i \in Slots |-> Uninit],
     hit |-> {}, last |-> [i \in Slots |-> Default]]

(* ------------------------------- new ----------------------------------- *)

Init ==
    /\ len = 0
    /\ buf = [i \in Slots |-> Uninit]
    /\ view = NoView
    /\ op = "new"
    /\ ret = Unit
    /\ fresh = TRUE
    /\ accepted = 0
    /\ alive = TRUE
    /\ dtors = <<>>
    /\ caller = <<>>
    /\ dma = DmaIdle

(* ------------------------------ write ---------------------------------- *)

\* Mutant: the default fill does not skip the valid prefix.
WriteFillNoSkip(b, l) == [i \in Slots |-> Default]

\* Mutant: nothing is filled.
WriteFillNothing(b, l) == b

\* for elem in self.buf.iter_mut().skip(self.len) { ptr::write(elem, W::default()) }
WriteFill(b, l) == [i \in Slots |-> IF i >= l THEN Default ELSE b[i]]

\* What write() leaves and returns, on a node of length l and storage st.
WriteOutcome(l, st) ==
    [len |-> Capacity, buf |-> WriteFill(st, l), ret |-> RetSlice(Capacity)]

write ==
    /\ Idle
    /\ Apply(WriteOutcome(len, buf), "write")
    /\ view' = [from |-> "write", len |-> ret'.len]
    /\ fresh' = FALSE
    /\ UNCHANGED <<accepted, aux>>

\* The caller stores v at index i of the mutable slice it still holds.
store(i, v) ==
    /\ view.from # "none"
    /\ i < view.len
    /\ buf' = [buf EXCEPT ![i] = v]
    /\ op' = "store"
    /\ ret' = Unit
    /\ UNCHANGED <<len, view, fresh, accepted, aux>>

(* ------------------------------ commit --------------------------------- *)

\* Mutant: the length is set without the shrink-only guard.
CommitLenUnguarded(l, shrink_to) == shrink_to

\* Mutant: the comparison is inverted, so that commit grows the length.
CommitLenGrows(l, shrink_to) == IF shrink_to > l THEN shrink_to ELSE l

\* if shrink_to < self.len { self.len = shrink_to; }
CommitLen(l, shrink_to) == IF shrink_to < l THEN shrink_to ELSE l

CommitOutcome(l, st, shrink_to) ==
    [len |-> CommitLen(l, shrink_to), buf |-> st, ret |-> Unit]

commit(shrink_to) ==
    /\ Idle
    /\ Apply(CommitOutcome(len, buf, shrink_to), "commit")
    /\ view' = NoView
    /\ fresh' = FALSE
    /\ UNCHANGED <<accepted, aux>>

(* ---------------------------- write_slice ------------------------------ *)

\* Mutant: the count is not bounded by the free space.
WriteSliceCountNoMin(n, fr) == n

\* Mutant: the count is bounded by the capacity, not by the free space.
WriteSliceCountByCapacity(n, fr) == Min(n, Capacity)

\* Mutant: a buf longer than the free space is refused whole.
WriteSliceCountAllOrNothing(n, fr) == IF n <= fr THEN n ELSE 0

\* let count = buf.len().min(self.free());
WriteSliceCount(n, fr) == Min(n, fr)

\* Mutant: the copy starts at the base of the storage, not at self.len.
CopyIntoBase(b, at, src, count) ==
    [i \in Slots |-> IF i < count THEN src[i + 1] ELSE b[i]]

\* ptr::copy_nonoverlapping(buf.as_ptr(), self.buf.as_mut_ptr().add(self.len), count)
\* (A copy running past the storage would write outside the node; only the
\* storage is modelled.)
CopyInto(b, at, src, count) ==
    [i \in Slots |-> IF i >= at /\ i < at + count THEN src[i - at + 1] ELSE b[i]]

\* Mutant: self.len = count.
WriteSliceLenAssigns(l, count) == count

\* self.len += count
WriteSliceLen(l, count) == (l + count) % UsizeMod

\* free() underflows, or self.len += count overflows.
WriteSliceOverflows(l, count) == FreeOverflows(l) \/ l + count >= UsizeMod

\* What write_slice(b) can leave and return, on a node of length l and
\* storage st: it panics where the arithmetic overflows and the build checks
\* it, and otherwise copies and advances.
WriteSliceOutcomes(l, st, b) ==
    LET count == WriteSliceCount(Len(b), free(l)) IN
    (IF WriteSliceOverflows(l, count)
     THEN { [len |-> l, buf |-> st, ret |-> Panic] }
     ELSE {})
    \cup
    { [len |-> WriteSliceLen(l, count),
       buf |-> CopyInto(st, l, b, count),
       ret |-> RetUsize(count)] }

write_slice(b) ==
    /\ Idle
    /\ \E r \in WriteSliceOutcomes(len, buf, b) :
          /\ Apply(r, "write_slice")
          /\ fresh' = (fresh /\ r.ret # Panic)
          /\ accepted' = IF fresh /\ r.ret # Panic
                         THEN accepted + r.ret.val
                         ELSE accepted
    /\ view' = NoView
    /\ UNCHANGED aux

(* ------------------------------- clear --------------------------------- *)

\* Mutant: clear drops the elements it abandons.
ClearOutcomeDropping(l, st) ==
    [len |-> 0, buf |-> st, ret |-> Unit,
     dtors |-> [k \in 1 .. Min(l, Capacity) |->
                  [by |-> "node", slot |-> k - 1, val |-> st[k - 1]]]]

\* self.len = 0: what clear() leaves, and the destructor calls it makes.
ClearOutcome(l, st) == [len |-> 0, buf |-> st, ret |-> Unit, dtors |-> <<>>]

clear ==
    /\ Idle
    /\ Apply(ClearOutcome(len, buf), "clear")
    /\ dtors' = dtors \o ClearOutcome(len, buf).dtors
    /\ view' = NoView
    /\ fresh' = FALSE
    /\ UNCHANGED <<accepted, alive, caller, dma>>

(* ----------------------------- write_str ------------------------------- *)

\* A &str is a sequence of chars; its bytes are the UTF-8 encoding of each
\* char in turn: one byte for an ASCII char, a lead byte and a continuation
\* byte for a two-byte char.
Chars == {"ascii", "two_byte"}

Strs == UNION { [1 .. n -> Chars] : n \in 0 .. MaxStrChars }

Utf8(c) == IF c = "ascii" THEN <<1>> ELSE <<1, 0>>

RECURSIVE as_bytes(_)
as_bytes(s) == IF s = <<>> THEN <<>> ELSE Utf8(Head(s)) \o as_bytes(Tail(s))

\* str::len is the length in bytes.
str_len(s) == Len(as_bytes(s))

\* Mutant: the text is handed to write_slice without the size check.
WriteStrFitsUnchecked(n, fr) == TRUE

\* if s.len() > free { Err(fmt::Error) } else { self.write_slice(..); Ok(()) }
WriteStrFits(n, fr) == ~(n > fr)

\* What write_str(s) can leave and return: free() may panic; a text that
\* fits goes to write_slice, whose count is dropped; one that does not is
\* refused.
WriteStrOutcomes(l, st, s) ==
    (IF FreeOverflows(l)
     THEN { [len |-> l, buf |-> st, ret |-> Panic] }
     ELSE {})
    \cup
    (IF WriteStrFits(str_len(s), free(l))
     THEN { [r EXCEPT !.ret = IF r.ret = Panic THEN Panic ELSE Ok] :
               r \in WriteSliceOutcomes(l, st, as_bytes(s)) }
     ELSE { [len |-> l, buf |-> st, ret |-> Err] })

write_str(s) ==
    /\ Idle
    /\ \E r \in WriteStrOutcomes(len, buf, s) : Apply(r, "write_str")
    /\ view' = NoView
    /\ fresh' = FALSE
    /\ UNCHANGED <<accepted, aux>>

(* ----------------------------- deref_mut ------------------------------- *)

\* Mutant: the mutable slice spans the whole storage.
DerefMutLenWholeStorage(l) == Capacity

\* slice::from_raw_parts_mut(self.buf.as_mut_slice().as_ptr(), self.len)
DerefMutLen(l) == l

deref_mut ==
    /\ Idle
    /\ view' = [from |-> "deref_mut", len |-> DerefMutLen(len)]
    /\ op' = "deref_mut"
    /\ ret' = RetSlice(DerefMutLen(len))
    /\ fresh' = FALSE
    /\ UNCHANGED <<len, buf, accepted, aux>>

(* ----------------------------- write_with ------------------------------ *)

\* f(&mut self.buf, self.len): what the closure is handed, the number of
\* slots it can reach and the length.
WriteWithArgs(l) == [storage |-> Capacity, len |-> l]

\* let count = f(&mut self.buf, self.len): the closure is entered holding the
\* whole storage; until it returns it is the only code that can touch the
\* node, and each of its stores is a `store` step through that borrow.
write_with_call ==
    /\ Idle
    /\ view' = [from |-> "write_with", len |-> WriteWithArgs(len).storage]
    /\ op' = "write_with_call"
    /\ ret' = RetUsize(WriteWithArgs(len).len)
    /\ fresh' = FALSE
    /\ UNCHANGED <<len, buf, accepted, aux>>

\* Counts the closure may return: the small ones and those near usize::MAX.
FCounts == (0 .. (Capacity + 1)) \cup ((UsizeMod - Capacity - 1) .. (UsizeMod - 1))

\* Mutant: the new length is not clamped to the capacity.
WriteWithLenNoClamp(l, count) == (l + count) % UsizeMod

\* Mutant: self.len = count.
WriteWithLenAssigns(l, count) == count

\* self.len = if count + self.len > N::USIZE { N::USIZE } else { self.len + count }
WriteWithLen(l, count) ==
    IF (count + l) % UsizeMod > Capacity THEN Capacity ELSE (l + count) % UsizeMod

\* What write_with can leave once f has returned count, on a node of length
\* l whose storage f has left as st: count + self.len panics where it
\* overflows and the build checks it, and otherwise the length is set.
WriteWithOutcomes(l, st, count) ==
    (IF count + l >= UsizeMod
     THEN { [len |-> l, buf |-> st, ret |-> Panic] }
     ELSE {})
    \cup
    { [len |-> WriteWithLen(l, count), buf |-> st, ret |-> Unit] }

\* The closure returns count and write_with sets the length.
write_with(count) ==
    /\ view.from = "write_with"
    /\ \E r \in WriteWithOutcomes(len, buf, count) : Apply(r, "write_with")
    /\ view' = NoView
    /\ UNCHANGED <<fresh, accepted, aux>>

\* The documented obligation of write_with's caller: count is the number of
\* slots, starting at self.len, that f has initialized.
WriteWithContract(count) ==
    /\ len + count <= Capacity
    /\ \A i \in 0 .. (len + count - 1) : buf[i] # Uninit

(* ------------------------------ set_len -------------------------------- *)

set_len(l) ==
    /\ Idle
    /\ len' = l
    /\ view' = NoView
    /\ op' = "set_len"
    /\ ret' = Unit
    /\ fresh' = FALSE
    /\ UNCHANGED <<buf, accepted, aux>>

\* The documented obligation of set_len's caller: the length is valid and
\* every element in that length has been initialized.
SetLenContract(l) ==
    /\ l <= Capacity
    /\ \A i \in 0 .. (l - 1) : buf[i] # Uninit

(* ------------------------- the &self methods --------------------------- *)

\* Mutant: the address is that of the first free slot.
BufferAddressAtLen(l) == (StorageAddr + l) % UsizeMod

\* self.buf.as_slice().as_ptr() as usize
BufferAddressForDma(l) == StorageAddr

\* The methods that take &self.
Queries == {"len", "is_empty", "max_len", "free", "buffer_address_for_dma"}

\* What the query q leaves and returns, on a node of length l and storage st.
QueryOutcomes(q, l, st) ==
    IF q = "free"
    THEN (IF FreeOverflows(l)
          THEN { [len |-> l, buf |-> st, ret |-> Panic] }
          ELSE {})
         \cup { [len |-> l, buf |-> st, ret |-> RetUsize(free(l))] }
    ELSE { [len |-> l, buf |-> st,
            ret |-> CASE q = "len" -> RetUsize(l)
                      [] q = "is_empty" -> RetBool(IsEmpty(l))
                      [] q = "max_len" -> RetUsize(max_len)
                      [] q = "buffer_address_for_dma" ->
                             RetUsize(BufferAddressForDma(l))] }

query(q) ==
    /\ Idle
    /\ \E r \in QueryOutcomes(q, len, buf) : Apply(r, q)
    /\ view' = NoView
    /\ fresh' = FALSE
    /\ UNCHANGED <<accepted, aux>>

(* -------------------------------- drop --------------------------------- *)

\* Mutant: the destructor loop runs over the storage, not over the slice.
DropCallsWholeStorage(l, st) ==
    [k \in 1 .. Capacity |-> [by |-> "node", slot |-> k - 1, val |-> st[k - 1]]]

\* for elem in self.iter_mut() { ptr::drop_in_place(elem) }: the destructor
\* calls of Drop::drop, in order, on a node of length l and storage st.  The
\* fields dropped afterwards run none: buf holds MaybeUninit<W>.
DropCalls(l, st) ==
    [k \in 1 .. Min(DerefMutLen(l), Capacity) |->
        [by |-> "node", slot |-> k - 1, val |-> st[k - 1]]]

drop ==
    /\ Idle
    /\ alive' = FALSE
    /\ dtors' = dtors \o DropCalls(len, buf)
    /\ view' = NoView
    /\ op' = "drop"
    /\ ret' = Unit
    /\ UNCHANGED <<len, buf, fresh, accepted, caller, dma>>

\* The destructor calls in the log d that the node made on slot i.
NodeCalls(d, i) == { k \in 1 .. Len(d) : d[k].by = "node" /\ d[k].slot = i }

(* ------------------------ a W that owns a resource --------------------- *)

\* The values of W that own a resource; W::default() owns none.  A bitwise
\* copy of such a value is a second handle to the same resource, and the
\* destructor of either handle releases it.
Resources == Vals \ {Default}

\* The buffers a caller can own: non-empty, of distinct resources.
OwnedBufs ==
    { b \in Bufs : /\ b # <<>>
                   /\ \A k \in 1 .. Len(b) : b[k] \in Resources
                   /\ \A j, k \in 1 .. Len(b) : j # k => b[j] # b[k] }

\* The destructor calls in the log d made on the resource v.
Releases(d, v) == { k \in 1 .. Len(d) : d[k].val = v }

\* The caller builds a buffer of resources that did not exist before.
caller_buf_new(b) ==
    /\ caller = <<>>
    /\ \A k \in 1 .. Len(b) :
          /\ Releases(dtors, b[k]) = {}
          /\ \A i \in Slots : buf[i] # b[k]
    /\ caller' = b
    /\ op' = "caller_buf_new"
    /\ ret' = Unit
    /\ UNCHANGED <<len, buf, view, fresh, accepted, alive, dtors, dma>>

\* The caller's buffer goes out of scope: each element is destructed.
caller_buf_drop ==
    /\ caller # <<>>
    /\ dtors' = dtors \o [k \in 1 .. Len(caller) |->
                            [by |-> "caller", slot |-> k - 1, val |-> caller[k]]]
    /\ caller' = <<>>
    /\ op' = "caller_buf_drop"
    /\ ret' = Unit
    /\ UNCHANGED <<len, buf, view, fresh, accepted, alive, dma>>

(* ------------------------- an external writer -------------------------- *)

\* The owner calls write() and hands buffer_address_for_dma() to an
\* external writer.
dma_start ==
    /\ Idle
    /\ dma.phase # "active"
    /\ Apply(WriteOutcome(len, buf), "write")
    /\ view' = [from |-> "write", len |-> ret'.len]
    /\ fresh' = FALSE
    /\ \E q \in QueryOutcomes("buffer_address_for_dma", len', buf') :
          dma' = [phase |-> "active", addr |-> q.ret.val, base |-> buf',
                  hit |-> {}, last |-> [i \in Slots |-> Default]]
    /\ UNCHANGED <<accepted, alive, dtors, caller>>

\* The external writer stores v in element j of the memory it was given the
\* address of; a store that falls outside the storage changes no slot.
dma_store(j, v) ==
    /\ dma.phase = "active"
    /\ LET i == dma.addr + j - StorageAddr IN
       buf' = IF i \in Slots THEN [buf EXCEPT ![i] = v] ELSE buf
    /\ dma' = [dma EXCEPT !.hit = @ \cup {j}, !.last[j] = v]
    /\ op' = "dma_store"
    /\ ret' = Unit
    /\ UNCHANGED <<len, view, fresh, accepted, alive, dtors, caller>>

\* The owner ends the transfer with commit(shrink_to); the record of the
\* stores is discarded.
dma_commit(shrink_to) ==
    /\ dma.phase = "active"
    /\ Apply(CommitOutcome(len, buf, shrink_to), "commit")
    /\ view' = NoView
    /\ fresh' = FALSE
    /\ dma' = [DmaIdle EXCEPT !.phase = "done"]
    /\ UNCHANGED <<accepted, alive, dtors, caller>>

(* --------------------------- specifications ---------------------------- *)

\* The safe surface of DMANode, Deref/DerefMut and fmt::Write.
NextSafe ==
    \/ write
    \/ deref_mut
    \/ \E i \in Slots, v \in Vals : store(i, v)
    \/ \E s \in Usize : commit(s)
    \/ \E b \in Bufs : write_slice(b)
    \/ clear
    \/ \E s \in Strs : write_str(s)

SpecSafe == Init /\ [][NextSafe]_vars

\* The operations of DMANode that fill and trim a node without lending it.
NextSlices ==
    \/ \E s \in Usize : commit(s)
    \/ \E b \in Bufs : write_slice(b)
    \/ clear

SpecSlices == Init /\ [][NextSlices]_vars

\* A node of resources: the caller's buffers come and go, the node is
\* written from them, trimmed and dropped.
NextOwned ==
    \/ \E b \in OwnedBufs : caller_buf_new(b)
    \/ caller # <<>> /\ write_slice(caller)
    \/ caller_buf_drop
    \/ write
    \/ \E s \in Usize : commit(s)
    \/ clear
    \/ drop

SpecOwned == Init /\ [][NextOwned]_vars

\* A node filled by an external writer between write() and commit(), and by
\* its owner at other times.
NextDma ==
    \/ dma_start
    \/ \E j \in Slots, v \in Vals : dma_store(j, v)
    \/ \E k \in Usize : dma_commit(k)
    \/ dma.phase # "active" /\ NextSlices

SpecDma == Init /\ [][NextDma]_vars

\* The safe surface, and the node going out of scope.
NextSafeDrop ==
    \/ NextSafe
    \/ drop

SpecSafeDrop == Init /\ [][NextSafeDrop]_vars

\* The safe surface and write_with with any closure; set_len is never called.
NextNoSetLen ==
    \/ NextSafe
    \/ write_with_call
    \/ \E count \in FCounts : write_with(count)

SpecNoSetLen == Init /\ [][NextNoSetLen]_vars

\* Every operation, the two unsafe ones called as their documentation asks.
NextTrusted ==
    \/ NextSafe
    \/ write_with_call
    \/ \E count \in FCounts : WriteWithContract(count) /\ write_with(count)
    \/ \E l \in Usize : SetLenContract(l) /\ set_len(l)

SpecTrusted == Init /\ [][NextTrusted]_vars

\* Every operation, write_with with any closure, set_len called as its
\* documentation asks.
Next ==
    \/ NextNoSetLen
    \/ \E l \in Usize : SetLenContract(l) /\ set_len(l)

Spec == Init /\ [][Next]_vars

\* The same, and the queries.
NextQueries ==
    \/ Next
    \/ \E q \in Queries : query(q)

SpecQueries == Init /\ [][NextQueries]_vars

(* ------------------------------- claims ------------------------------- *)

\* C1: with set_len never called, after any sequence of write, commit,
\* write_slice, clear, write_with and write_str the length satisfies
\* 0 <= len <= capacity.
LenWithinCapacity == 0 <= len /\ len <= Capacity

\* write_with has clamped a count that overshoots the capacity.
LenWithinCapacityWitness ==
    /\ op = "write_with"
    /\ ret = Unit
    /\ len = Capacity
    /\ \E i \in Slots : buf[i] = Uninit

\* C2: after any sequence of safe operations every slot in [0, len) has been
\* initialized since the node was created.
ValidPrefixInitialized == \A i \in Slots : i < len => buf[i] # Uninit

\* commit was called on a partly filled node whose next slot was never
\* initialized, and did not uncover it.
ValidPrefixInitializedWitness ==
    /\ op = "commit"
    /\ len > 0
    /\ len < Capacity
    /\ buf[len] = Uninit

\* C3: write_slice(buf) on a node of length L returns
\* count = min(buf.len(), capacity - L), never an error, and sets len to
\* L + count; on a full node it returns 0 and leaves len unchanged.
WriteSliceCountAndLen ==
    \A b \in Bufs : \A r \in WriteSliceOutcomes(len, buf, b) :
        /\ r.ret = RetUsize(Min(Len(b), Capacity - len))
        /\ r.len = len + Min(Len(b), Capacity - len)
        /\ (len = Capacity => r.ret = RetUsize(0) /\ r.len = len)

\* write_slice on a full node has returned 0.
WriteSliceCountAndLenWitness ==
    /\ op = "write_slice"
    /\ ret = RetUsize(0)
    /\ len = Capacity

\* C4: after write_slice(buf) returns count on a node whose read view was V,
\* the read view is V followed by buf[0..count); a buf as long as the
\* capacity written into an empty node is read back whole.
WriteSliceRoundTrip ==
    \A b \in Bufs : \A r \in WriteSliceOutcomes(len, buf, b) :
        r.ret.tag = "usize" =>
            /\ Deref(r.len, r.buf) = deref \o SubSeq(b, 1, r.ret.val)
            /\ (len = 0 /\ Len(b) = Capacity => Deref(r.len, r.buf) = b)

\* write_slice has appended to a non-empty prefix, and the view holds two
\* different values.
WriteSliceRoundTripWitness ==
    /\ op = "write_slice"
    /\ ret.tag = "usize"
    /\ ret.val > 0
    /\ ret.val < len
    /\ \E i, j \in 1 .. Len(deref) : i <= len - ret.val /\ j > len - ret.val
                                      /\ deref[i] # deref[j]

\* C5: write() on a node of length L sets len to the capacity, stores the
\* default value in every slot of [L, capacity), leaves [0, L) unchanged and
\* returns a mutable view of exactly capacity elements; afterwards every
\* slot is initialized.
WriteFillsAndExposesAll ==
    LET r == WriteOutcome(len, buf) IN
    /\ r.len = Capacity
    /\ \A i \in Slots : i >= len => r.buf[i] = Default
    /\ \A i \in Slots : i < len => r.buf[i] = buf[i]
    /\ r.ret = RetSlice(Capacity)
    /\ \A i \in Slots : r.buf[i] # Uninit

\* write() has kept a non-default value of the prefix and filled the rest.
WriteFillsAndExposesAllWitness ==
    /\ op = "write"
    /\ buf[0] # Default
    /\ buf[Capacity - 1] = Default

\* C6: commit(x) never increases len: len afterwards is min(len before, x),
\* and no slot is modified.
CommitOnlyShrinks ==
    \A x \in Usize :
        LET r == CommitOutcome(len, buf, x) IN
        /\ r.len = Min(len, x)
        /\ r.len <= len
        /\ (x >= len => r.len = len)
        /\ r.buf = buf

\* commit has left a length below the capacity with every slot initialized:
\* it shrank.
CommitOnlyShrinksWitness ==
    /\ op = "commit"
    /\ len < Capacity
    /\ \A i \in Slots : buf[i] # Uninit

\* C7: write(), stores by the caller into the full-capacity view, then
\* commit(k) with k <= max_len(): the read view has exactly k elements and
\* element i is what the full-capacity view held at position i.
WriteThenCommit ==
    view.from = "write" =>
        \A k \in 0 .. max_len :
            LET r == CommitOutcome(len, buf, k) IN
            /\ Len(Deref(r.len, r.buf)) = k
            /\ \A i \in 1 .. k : Deref(r.len, r.buf)[i] = buf[i - 1]

\* commit(max_len()) after write() and a store: the whole view is kept.
WriteThenCommitWitness ==
    /\ op = "commit"
    /\ len = Capacity
    /\ buf[0] = MaxVal
    /\ buf[Capacity - 1] = Default

\* C8: write_str(s) on a byte node: if s is longer in bytes than free() it
\* returns Err and changes neither len nor any slot; otherwise it appends
\* all the bytes of s at [len, len + |s|) and returns Ok.
WriteStrAllOrNothing ==
    \A s \in Strs : \A r \in WriteStrOutcomes(len, buf, s) :
        IF str_len(s) > Capacity - len
        THEN r.ret = Err /\ r.len = len /\ r.buf = buf
        ELSE /\ r.ret = Ok
             /\ r.len = len + str_len(s)
             /\ \A i \in Slots :
                   r.buf[i] = IF i >= len /\ i < len + str_len(s)
                              THEN as_bytes(s)[i - len + 1]
                              ELSE buf[i]

\* A text that does not fit the space left in a partly filled node was
\* refused.
WriteStrAllOrNothingWitness ==
    /\ op = "write_str"
    /\ ret = Err
    /\ len > 0
    /\ len < Capacity

\* C9: free() + len() == max_len() after every operation (set_len called
\* within its precondition), and free() never underflows.
FreePlusLenIsMaxLen == free(len) + len = max_len /\ ~FreeOverflows(len)

\* set_len has set a length strictly inside the node.
FreePlusLenIsMaxLenWitness ==
    /\ op = "set_len"
    /\ len > 0
    /\ free(len) > 0

\* C10: on a fresh node written only by write_slice, the counts returned sum
\* to at most max_len(), and len() is their sum after each call.
AcceptedSumIsLen == fresh => accepted = len /\ accepted <= max_len

\* A second write_slice on a fresh node has accepted something.
AcceptedSumIsLenWitness ==
    /\ fresh
    /\ op = "write_slice"
    /\ ret.tag = "usize"
    /\ ret.val > 0
    /\ ret.val < accepted

\* C11: after any sequence of safe operations, dropping the node runs the
\* element destructor exactly once for each slot in [0, len) and never for a
\* slot in [len, capacity): len() times in all.
DropRunsOncePerValidSlot ==
    /\ alive =>
          LET d == DropCalls(len, buf) IN
          /\ Len(d) = len
          /\ \A i \in Slots :
                Cardinality(NodeCalls(d, i)) = IF i < len THEN 1 ELSE 0
    /\ ~alive =>
          /\ Len(dtors) = len
          /\ \A i \in Slots :
                Cardinality(NodeCalls(dtors, i)) = IF i < len THEN 1 ELSE 0

\* A node was dropped whose slot just past len held a value: that value's
\* destructor did not run.
DropRunsOncePerValidSlotWitness ==
    /\ ~alive
    /\ len > 0
    /\ len < Capacity
    /\ buf[len] # Uninit
    /\ Len(dtors) = len

\* C12: write_with(f) on a node of length L sets len to min(L + count,
\* capacity) for every usize count f can return, also where L + count does
\* not fit in a usize; len is never set below L nor above the capacity.
WriteWithClampsEveryCount ==
    view.from = "write_with" =>
        \A count \in Usize : \A r \in WriteWithOutcomes(len, buf, count) :
            /\ r.ret = Unit
            /\ r.len = Min(len + count, Capacity)
            /\ r.len >= len
            /\ r.len <= Capacity

\* C13: clear() sets len to 0 from any state, runs no element destructor
\* and changes no slot; afterwards is_empty() holds and free() == max_len().
ClearAbandonsElements ==
    LET r == ClearOutcome(len, buf) IN
    /\ r.len = 0
    /\ r.dtors = <<>>
    /\ r.buf = buf
    /\ IsEmpty(r.len)
    /\ free(r.len) = max_len
    /\ (op = "clear" => is_empty /\ dtors = <<>>)

\* clear() has emptied a node that held values: they are still in the
\* storage and no destructor ran.
ClearAbandonsElementsWitness ==
    /\ op = "clear"
    /\ len = 0
    /\ \A i \in Slots : buf[i] # Uninit
    /\ buf[0] # Default
    /\ dtors = <<>>

\* C14: in every reachable state the read-only and the mutable view of the
\* node have exactly len() elements; a view of the whole capacity comes from
\* write() alone, which has initialized every slot.
ViewsSpanValidPrefix ==
    /\ Len(deref) = len
    /\ DerefMutLen(len) = len
    /\ (view.from = "deref_mut" => view.len = len)
    /\ (view.from = "write" => view.len = Capacity /\ len = Capacity)
    /\ (view.from \in {"write", "deref_mut"} =>
           \A i \in Slots : i < view.len => buf[i] # Uninit)

\* A mutable view of a partly filled node is outstanding; the slot after it
\* was never initialized.
ViewsSpanValidPrefixWitness ==
    /\ view.from = "deref_mut"
    /\ len > 0
    /\ len < Capacity
    /\ view.len = len
    /\ buf[len] = Uninit

\* C15: len(), is_empty(), max_len(), free() and buffer_address_for_dma()
\* change neither len nor any slot, and buffer_address_for_dma() and
\* max_len() return what they returned on the new node, whatever mutating
\* operations have run since.
QueriesObserveOnly ==
    /\ \A q \in Queries : \A r \in QueryOutcomes(q, len, buf) :
           r.len = len /\ r.buf = buf
    /\ \A q \in {"max_len", "buffer_address_for_dma"} :
           { r.ret : r \in QueryOutcomes(q, len, buf) }
               = { r.ret : r \in QueryOutcomes(q, 0, [i \in Slots |-> Uninit]) }
    /\ (op \in Queries => view = NoView)

\* The address was asked of a node that has been written to.
QueriesObserveOnlyWitness ==
    /\ op = "buffer_address_for_dma"
    /\ ret = RetUsize(StorageAddr)
    /\ len > 0
    /\ buf[0] # Uninit

\* C16: write, write_slice and write_with never decrease len, and commit and
\* clear never increase it.
LenMovesOneWay ==
    /\ WriteOutcome(len, buf).len >= len
    /\ \A b \in Bufs : \A r \in WriteSliceOutcomes(len, buf, b) : r.len >= len
    /\ (view.from = "write_with" =>
           \A count \in Usize : \A r \in WriteWithOutcomes(len, buf, count) :
               r.len >= len)
    /\ \A x \in Usize : CommitOutcome(len, buf, x).len <= len
    /\ ClearOutcome(len, buf).len <= len

\* C17: write_with(f) hands f the whole storage and the current len and
\* writes no slot itself: when f has initialized count slots from index len
\* on, with len + count <= capacity, and returns count, the read view is the
\* old read view followed by the count elements f stored.
WriteWithAppendsWhatFStored ==
    /\ WriteWithArgs(len) = [storage |-> Capacity, len |-> len]
    /\ (view.from = "write_with" =>
           /\ view.len = Capacity
           /\ \A count \in Usize : WriteWithContract(count) =>
                  \A r \in WriteWithOutcomes(len, buf, count) :
                      /\ r.ret = Unit
                      /\ r.buf = buf
                      /\ Deref(r.len, r.buf)
                            = deref \o [k \in 1 .. count |-> buf[len + k - 1]])

\* write_with has returned on a partly filled node: the last element of the
\* view is not the default and the slot after it was never initialized.
WriteWithAppendsWhatFStoredWitness ==
    /\ op = "write_with"
    /\ ret = Unit
    /\ len > 1
    /\ len < Capacity
    /\ buf[len - 1] = MaxVal
    /\ buf[len] = Uninit

\* C19: for every node state and all buffers a and b, write_slice(a) followed
\* by write_slice(b) leaves the same len and the same read view as one
\* write_slice(a ++ b), and the two counts returned sum to the count the one
\* call returns.
WriteSliceSplits ==
    \A a \in Bufs : \A r1 \in WriteSliceOutcomes(len, buf, a) :
        \A b \in BufsUpTo(MaxBufLen - Len(a)) :
            \A r2 \in WriteSliceOutcomes(r1.len, r1.buf, b) :
                \A r \in WriteSliceOutcomes(len, buf, a \o b) :
                    /\ r2.len = r.len
                    /\ Deref(r2.len, r2.buf) = Deref(r.len, r.buf)
                    /\ r1.ret.tag = "usize"
                    /\ r2.ret.tag = "usize"
                    /\ r.ret = RetUsize(r1.ret.val + r2.ret.val)

\* Two write_slice calls in a row on a fresh node: the first was accepted
\* whole and the second was cut short by the capacity.
WriteSliceSplitsWitness ==
    /\ fresh
    /\ op = "write_slice"
    /\ ret.tag = "usize"
    /\ ret.val > 0
    /\ accepted > ret.val
    /\ len = Capacity
    /\ deref[1] # deref[Capacity]

\* C18: for a W whose values own a resource, no resource is destructed more
\* than once: after write_slice(buf) has copied elements of buf into the
\* node, destroying the caller's buf and the node runs the destructor of
\* each resource at most once.
NoResourceDestructedTwice ==
    \A v \in Resources : Cardinality(Releases(dtors, v)) <= 1

\* C20: an external writer stores into the storage between write() and the
\* following commit(k), with no owner operation in between: after commit(k)
\* every slot of the read view is initialized and holds what the writer
\* stored last in it or, if it stored nothing there, what the slot held when
\* write() returned, which is the default value from the old len on.
DmaThenCommit ==
    /\ (dma.phase # "active" =>
           LET r == WriteOutcome(len, buf) IN
           \A i \in Slots : r.buf[i] = IF i >= len THEN Default ELSE buf[i])
    /\ (dma.phase = "active" =>
           \A k \in Usize :
               LET r == CommitOutcome(len, buf, k) IN
               LET v == Deref(r.len, r.buf) IN
               /\ Len(v) = Min(k, Capacity)
               /\ \A i \in 1 .. Len(v) :
                     /\ v[i] # Uninit
                     /\ v[i] = IF (i - 1) \in dma.hit
                               THEN dma.last[i - 1]
                               ELSE dma.base[i - 1])

\* commit() has ended a transfer and cut one slot off: the view holds a
\* non-default value and a default one, and the slot cut off is initialized.
DmaThenCommitWitness ==
    /\ dma.phase = "done"
    /\ op = "commit"
    /\ len = Capacity - 1
    /\ buf[0] = MaxVal
    /\ buf[len - 1] = Default
    /\ buf[len] = MaxVal

====
